---- MODULE Spec2Model ----
(***************************************************************************)
(* LossTool (src/losstool.py): a command line utility that loads two       *)
(* two-column numeric files, checks that they have the same shape,         *)
(* computes MSE, MAE, RMSE and R-squared between their y-columns and       *)
(* prints a report.                                                        *)
(*                                                                         *)
(* Two specifications:                                                     *)
(*   Spec        one run of main(), statement by statement;                *)
(*   MetricSpec  the metric functions applied to bounded inputs.           *)
(*                                                                         *)
(* Numbers.  The program computes in IEEE-754 binary64.  The model keeps   *)
(* the structure of that arithmetic (every operation rounds its exact      *)
(* result to the nearest representable value, ties to even; gradual        *)
(* underflow; division by zero gives NaN or an infinity) with a            *)
(* significand of MantBits bits and a smallest positive value of           *)
(* 2^-FracBits.  A finite number is held as its integer count of that      *)
(* smallest value ("quanta").  Inputs are small, so no overflow to         *)
(* infinity occurs in additions and multiplications.  Signed zero is not   *)
(* distinguished.                                                          *)
(***************************************************************************)
EXTENDS Integers, Sequences, FiniteSets, TLC

\* ---------------------------------------------------------------- bounds
MantBits == 4
FracBits == 3
MaxRows == 3
MaxCols == 3
MaxLen == 3
MaxPrec == 1

\* ------------------------------------------------------- float arithmetic
RECURSIVE Pow2(_)
Pow2(n) == IF n = 0 THEN 1 ELSE 2 * Pow2(n - 1)

RECURSIVE Pow10(_)
Pow10(n) == IF n = 0 THEN 1 ELSE 10 * Pow10(n - 1)

\* 1.0 in quanta
One == Pow2(FracBits)

\* significands are the integers below Radix
Radix == Pow2(MantBits)

Abs(i) == IF i < 0 THEN -i ELSE i

Sgn(i) == IF i < 0 THEN -1 ELSE 1

Fin(q) == [k |-> "fin", v |-> q]

NaN == [k |-> "nan", v |-> 0]

Inf(s) == [k |-> "inf", v |-> s]

IsFinite(x) == x.k = "fin"

Zero == Fin(0)

\* the float of the small integer i
Num(i) == Fin(i * One)

\* a / d rounded to the nearest integer, ties to even (a >= 0, d > 0)
RoundHalfEven(a, d) ==
    LET q == a \div d
        r == a % d
    IN  IF 2 * r < d THEN q
        ELSE IF 2 * r > d THEN q + 1
        ELSE IF q % 2 = 0 THEN q ELSE q + 1

\* spacing of representable values around a / d: the least power of two s
\* with a / d < 2^MantBits * s
RECURSIVE Ulp(_, _, _)
Ulp(a, d, s) == IF a < d * Radix * s THEN s ELSE Ulp(a, d, 2 * s)

\* the exact rational num / den (den > 0, in quanta) rounded to a
\* representable value
Rnd(num, den) ==
    LET a == Abs(num)
        s == Ulp(a, den, 1)
    IN  Sgn(num) * s * RoundHalfEven(a, den * s)

FNeg(x) == IF x.k = "fin" THEN Fin(-x.v) ELSE IF x.k = "inf" THEN Inf(-x.v) ELSE NaN

FAdd(x, y) ==
    IF x.k = "nan" \/ y.k = "nan" THEN NaN
    ELSE IF x.k = "inf" /\ y.k = "inf" THEN (IF x.v = y.v THEN x ELSE NaN)
    ELSE IF x.k = "inf" THEN x
    ELSE IF y.k = "inf" THEN y
    ELSE Fin(Rnd(x.v + y.v, 1))

FSub(x, y) == FAdd(x, FNeg(y))

FMul(x, y) ==
    IF x.k = "nan" \/ y.k = "nan" THEN NaN
    ELSE IF x.k = "inf" \/ y.k = "inf"
         THEN (IF x.v = 0 \/ y.v = 0 THEN NaN ELSE Inf(Sgn(x.v) * Sgn(y.v)))
    ELSE Fin(Rnd(x.v * y.v, One))

FDiv(x, y) ==
    IF x.k = "nan" \/ y.k = "nan" THEN NaN
    ELSE IF x.k = "inf" THEN (IF y.k = "inf" THEN NaN ELSE Inf(x.v * Sgn(y.v)))
    ELSE IF y.k = "inf" THEN Zero
    ELSE IF y.v = 0 THEN (IF x.v = 0 THEN NaN ELSE Inf(Sgn(x.v)))
    ELSE Fin(Rnd(Sgn(y.v) * x.v * One, Abs(y.v)))

FAbs(x) == IF x.k = "fin" THEN Fin(Abs(x.v)) ELSE IF x.k = "inf" THEN Inf(1) ELSE NaN

\* floor of the square root of n >= 0, by bisection on lo..hi
RECURSIVE ISqrtIn(_, _, _)
ISqrtIn(n, lo, hi) ==
    IF lo = hi THEN lo
    ELSE LET mid == (lo + hi + 1) \div 2
         IN  IF mid * mid <= n THEN ISqrtIn(n, mid, hi) ELSE ISqrtIn(n, lo, mid - 1)

ISqrt(n) == ISqrtIn(n, 0, n)

\* spacing of representable values around sqrt(n): least power of two s
\* with n < (2^MantBits * s)^2
RECURSIVE UlpSqrt(_, _)
UlpSqrt(n, s) ==
    IF n < Radix * s * Radix * s THEN s ELSE UlpSqrt(n, 2 * s)

\* correctly rounded square root; sqrt of a negative number is NaN
FSqrt(x) ==
    IF x.k = "nan" THEN NaN
    ELSE IF x.k = "inf" THEN (IF x.v > 0 THEN x ELSE NaN)
    ELSE IF x.v < 0 THEN NaN
    ELSE LET n == x.v * One
             s == UlpSqrt(n, 1)
             m == ISqrt(n) \div s
             t == (2 * m + 1) * s
         IN  IF t * t < 4 * n \/ (t * t = 4 * n /\ m % 2 = 1)
             THEN Fin((m + 1) * s) ELSE Fin(m * s)

\* x <= y for numbers that are not NaN
FLeq(x, y) ==
    /\ x.k # "nan" /\ y.k # "nan"
    /\ \/ x.k = "inf" /\ x.v < 0
       \/ y.k = "inf" /\ y.v > 0
       \/ x.k = "fin" /\ y.k = "fin" /\ x.v <= y.v


\* ------------------------------------------------------------ numpy arrays
\* an array is its shape and its elements in row-major order
Arr(shape, flat) == [shape |-> shape, flat |-> flat]

\* no array (the variable is not bound yet)
NoData == Arr(<<>>, <<>>)

\* np.squeeze: drop the axes of length 1
Squeeze(shape) == SelectSeq(shape, LAMBDA d : d # 1)

\* ndarray.T: reverse the axes
Transpose(a) ==
    IF Len(a.shape) < 2 THEN a
    ELSE LET n == a.shape[1]
             k == a.shape[2]
         IN  Arr(<<k, n>>,
                 [p \in 1..(n * k) |->
                     a.flat[(((p - 1) % n) * k) + ((p - 1) \div n) + 1]])

\* a[r, :] for a two-dimensional array (r counted from 0)
RowOf(a, r) == [j \in 1..a.shape[2] |-> a.flat[r * a.shape[2] + j]]

RECURSIVE Concat(_)
Concat(rows) == IF rows = <<>> THEN <<>> ELSE Head(rows) \o Concat(Tail(rows))

\* an input file: whether it can be read, and its rows of numeric tokens
Regular(rows) == \A i \in 1..Len(rows) : Len(rows[i]) = Len(rows[1])

\* np.genfromtxt(filename): IOError for an unreadable file, ValueError for
\* rows with differing numbers of columns, else the squeezed array of the
\* rows
genfromtxt(f) ==
    IF ~f.exists THEN [exc |-> "IOError", val |-> NoData]
    ELSE IF ~Regular(f.rows) THEN [exc |-> "ValueError", val |-> NoData]
    ELSE [exc |-> "none",
          val |-> Arr(Squeeze(<<Len(f.rows), Len(f.rows[1])>>), Concat(f.rows))]

\* ------------------------------------------------------------ output lines
Line(text, vals) == [text |-> text, vals |-> vals]

Txt(s, neg, digits, prec) == [s |-> s, neg |-> neg, digits |-> digits, prec |-> prec]

\* format(x, ".{p}f") for p >= 0: the decimal digits of x rounded to p places
FormatFloat(x, p) ==
    IF x.k = "nan" THEN Txt("nan", FALSE, 0, 0)
    ELSE IF x.k = "inf" THEN Txt("inf", x.v < 0, 0, 0)
    ELSE Txt("num", x.v < 0, RoundHalfEven(Abs(x.v) * Pow10(p), One), p)

FormatInt(n) == Txt("int", FALSE, n, 0)

\* --------------------------------------------------------------- load_data
\* the outcome of a call: it returns data, or prints a line and calls
\* sys.exit(1), or lets an exception escape
Returned(data) == [kind |-> "return", data |-> data, line |-> "", exc |-> ""]

Exited(line) == [kind |-> "exit", data |-> NoData, line |-> line, exc |-> ""]

Raised(exc) == [kind |-> "raise", data |-> NoData, line |-> "", exc |-> exc]

load_data(f) ==
    LET g == genfromtxt(f)
        data == Transpose(g.val)
    IN  IF g.exc = "IOError" THEN Exited("Error: Unable to read file")
        ELSE IF g.exc = "ValueError" THEN Exited("Error: genfromtxt")
        ELSE IF Len(data.shape) = 0 THEN Raised("IndexError")
        ELSE IF data.shape[1] # 2
             THEN Exited("Error: Input file must contain exactly two columns.")
        ELSE Returned(data)

\* ----------------------------------------------------------------- metrics
\* elementwise operations on equal-length sequences
ArrSub(a, b) == [i \in 1..Len(a) |-> FSub(a[i], b[i])]

ArrSubScalar(a, c) == [i \in 1..Len(a) |-> FSub(a[i], c)]

ArrSquare(a) == [i \in 1..Len(a) |-> FMul(a[i], a[i])]

ArrAbs(a) == [i \in 1..Len(a) |-> FAbs(a[i])]

\* np.sum of fewer than eight elements: accumulated in index order
RECURSIVE SumFrom(_, _)
SumFrom(acc, a) == IF a = <<>> THEN acc ELSE SumFrom(FAdd(acc, Head(a)), Tail(a))

\* np_sum with an off-by-one: the first element is left out
np_sum_skip_first(a) == SumFrom(Zero, Tail(a))

np_sum(a) == SumFrom(Zero, a)

np_mean(a) == FDiv(np_sum(a), Num(Len(a)))

mean_squared_error(y_true, y_pred) == np_mean(ArrSquare(ArrSub(y_true, y_pred)))

\* mean_absolute_error without the absolute value
mean_absolute_error_signed(y_true, y_pred) == np_mean(ArrSub(y_true, y_pred))

mean_absolute_error(y_true, y_pred) == np_mean(ArrAbs(ArrSub(y_true, y_pred)))

root_mean_squared_error(y_true, y_pred) == FSqrt(mean_squared_error(y_true, y_pred))

ss_res(y_true, y_pred) == np_sum(ArrSquare(ArrSub(y_true, y_pred)))

ss_tot(y_true) == np_sum(ArrSquare(ArrSubScalar(y_true, np_mean(y_true))))

\* r_squared without the subtraction from 1
r_squared_ratio(y_true, y_pred) == FDiv(ss_res(y_true, y_pred), ss_tot(y_true))

r_squared(y_true, y_pred) ==
    FSub(Num(1), FDiv(ss_res(y_true, y_pred), ss_tot(y_true)))

Loss(name, value) == [name |-> name, value |-> value]

\* calculate_losses reading the x-row of the obtained dataset as y_pred
calculate_losses_x_row(ref, obtained) ==
    IF Len(ref.shape) < 2 \/ Len(obtained.shape) < 2
    THEN [exc |-> "IndexError", val |-> <<>>]
    ELSE LET y_true == RowOf(ref, 1)
             y_pred == RowOf(obtained, 0)
         IN  [exc |-> "none",
              val |-> << Loss("MSE", mean_squared_error(y_true, y_pred)),
                         Loss("MAE", mean_absolute_error(y_true, y_pred)),
                         Loss("RMSE", root_mean_squared_error(y_true, y_pred)),
                         Loss("R-squared", r_squared(y_true, y_pred)) >>]

\* the mapping in insertion order, or IndexError when an argument is not
\* two-dimensional
calculate_losses(ref, obtained) ==
    IF Len(ref.shape) < 2 \/ Len(obtained.shape) < 2
    THEN [exc |-> "IndexError", val |-> <<>>]
    ELSE LET y_true == RowOf(ref, 1)
             y_pred == RowOf(obtained, 1)
         IN  [exc |-> "none",
              val |-> << Loss("MSE", mean_squared_error(y_true, y_pred)),
                         Loss("MAE", mean_absolute_error(y_true, y_pred)),
                         Loss("RMSE", root_mean_squared_error(y_true, y_pred)),
                         Loss("R-squared", r_squared(y_true, y_pred)) >>]

\* check_data_consistency that never raises
check_data_consistency_never(ref, obtained) == FALSE

\* TRUE when check_data_consistency raises ValueError
check_data_consistency(ref, obtained) == ref.shape # obtained.shape

RECURSIVE ArrMin(_)
ArrMin(a) ==
    IF Len(a) = 1 THEN a[1]
    ELSE LET m == ArrMin(Tail(a)) IN IF FLeq(a[1], m) THEN a[1] ELSE m

RECURSIVE ArrMax(_)
ArrMax(a) ==
    IF Len(a) = 1 THEN a[1]
    ELSE LET m == ArrMax(Tail(a)) IN IF FLeq(m, a[1]) THEN a[1] ELSE m


\* ------------------------------------------------------------- input files
\* y-tokens of the files of a run
YTok == {Zero, Num(1)}

Missing == [read |-> TRUE, exists |-> FALSE, rows |-> <<>>]

Unread == [read |-> FALSE, exists |-> FALSE, rows |-> <<>>]

\* the file whose row i has lens[i] tokens: x = i, y = ys[i], then zeros
FileOf(lens, ys) ==
    [read |-> TRUE, exists |-> TRUE,
     rows |-> [i \in 1..Len(lens) |->
                 [j \in 1..lens[i] |->
                     IF j = 1 THEN Num(i) ELSE IF j = 2 THEN ys[i] ELSE Zero]]]

Files ==
    {Missing} \cup
    UNION { { FileOf(lens, ys) : lens \in [1..n -> 1..MaxCols], ys \in [1..n -> YTok] } :
            n \in 1..MaxRows }

\* ------------------------------------------------------------ a run of main
VARIABLES pc, args, ref_file, obtained_file, ref_data, obtained_data,
          losses, idx, out, err, exit_code, stages,
          m_pc, m_ref, m_obtained, m_losses, m_ref2, m_obtained2, m_losses2, m_perm

run_vars == <<pc, args, ref_file, obtained_file, ref_data, obtained_data,
              losses, idx, out, err, exit_code, stages>>

metric_vars == <<m_pc, m_ref, m_obtained, m_losses, m_ref2, m_obtained2, m_losses2, m_perm>>

vars == <<run_vars, metric_vars>>

NoArgs == [precision |-> 0, parsed |-> FALSE]

RunInit ==
    /\ pc = "parse_arguments"
    /\ args = NoArgs
    /\ ref_file = Unread
    /\ obtained_file = Unread
    /\ ref_data = NoData
    /\ obtained_data = NoData
    /\ losses = <<>>
    /\ idx = 0
    /\ out = <<>>
    /\ err = ""
    /\ exit_code = -1
    /\ stages = <<>>

\* print(line); sys.exit(1)
PrintAndExit(line) ==
    /\ out' = Append(out, Line(line, <<>>))
    /\ exit_code' = 1
    /\ pc' = "done"
    /\ UNCHANGED err

\* an exception nothing catches: traceback on stderr, exit status 1
Uncaught(exc) ==
    /\ err' = exc
    /\ exit_code' = 1
    /\ pc' = "done"
    /\ UNCHANGED out

\* line 90, argparse accepts the command line
parse_arguments ==
    /\ pc = "parse_arguments"
    /\ \E p \in (-1)..MaxPrec : args' = [precision |-> p, parsed |-> TRUE]
    /\ pc' = "load_ref"
    /\ UNCHANGED <<ref_file, obtained_file, ref_data, obtained_data, losses, idx,
                   out, err, exit_code, stages>>

\* line 90, argparse rejects the command line (a precision that is no
\* integer, a missing file argument): usage on stderr, exit status 2
parse_arguments_error ==
    /\ pc = "parse_arguments"
    /\ err' = "usage"
    /\ exit_code' = 2
    /\ pc' = "done"
    /\ UNCHANGED <<args, ref_file, obtained_file, ref_data, obtained_data, losses,
                   idx, out, stages>>

\* line 92
load_ref ==
    /\ pc = "load_ref"
    /\ stages' = Append(stages, "load_ref")
    /\ \E f \in Files :
         LET o == load_data(f)
         IN  /\ ref_file' = f
             /\ IF o.kind = "return"
                THEN /\ ref_data' = o.data
                     /\ pc' = "load_obtained"
                     /\ UNCHANGED <<out, err, exit_code>>
                ELSE /\ UNCHANGED ref_data
                     /\ IF o.kind = "exit" THEN PrintAndExit(o.line) ELSE Uncaught(o.exc)
    /\ UNCHANGED <<args, obtained_file, obtained_data, losses, idx>>

\* line 93
load_obtained ==
    /\ pc = "load_obtained"
    /\ stages' = Append(stages, "load_obtained")
    /\ \E f \in Files :
         LET o == load_data(f)
         IN  /\ obtained_file' = f
             /\ IF o.kind = "return"
                THEN /\ obtained_data' = o.data
                     /\ pc' = "check"
                     /\ UNCHANGED <<out, err, exit_code>>
                ELSE /\ UNCHANGED obtained_data
                     /\ IF o.kind = "exit" THEN PrintAndExit(o.line) ELSE Uncaught(o.exc)
    /\ UNCHANGED <<args, ref_file, ref_data, losses, idx>>

\* lines 95-99
check ==
    /\ pc = "check"
    /\ stages' = Append(stages, "check")
    /\ IF check_data_consistency(ref_data, obtained_data)
       THEN PrintAndExit("Error: Reference and obtained data must have the same shape.")
       ELSE /\ pc' = "calculate"
            /\ UNCHANGED <<out, err, exit_code>>
    /\ UNCHANGED <<args, ref_file, obtained_file, ref_data, obtained_data, losses, idx>>

\* line 101
calculate ==
    /\ pc = "calculate"
    /\ stages' = Append(stages, "calculate")
    /\ LET r == calculate_losses(ref_data, obtained_data)
       IN  IF r.exc = "none"
           THEN /\ losses' = r.val
                /\ pc' = "print_header"
                /\ UNCHANGED <<out, err, exit_code>>
           ELSE /\ Uncaught(r.exc)
                /\ UNCHANGED losses
    /\ UNCHANGED <<args, ref_file, obtained_file, ref_data, obtained_data, idx>>

\* line 103
print_header ==
    /\ pc = "print_header"
    /\ stages' = Append(stages, "report")
    /\ out' = Append(out, Line("Loss values:", <<>>))
    /\ idx' = 1
    /\ pc' = "print_loss"
    /\ UNCHANGED <<args, ref_file, obtained_file, ref_data, obtained_data, losses,
                   err, exit_code>>

\* lines 104-105, one iteration; a negative precision makes the format
\* specification invalid and format() raises ValueError
print_loss ==
    /\ pc = "print_loss"
    /\ IF args.precision < 0
       THEN /\ Uncaught("ValueError")
            /\ UNCHANGED idx
       ELSE /\ out' = Append(out, Line(losses[idx].name,
                                       <<FormatFloat(losses[idx].value, args.precision)>>))
            /\ IF idx = Len(losses)
               THEN pc' = "print_stats_header" /\ UNCHANGED idx
               ELSE idx' = idx + 1 /\ UNCHANGED pc
            /\ UNCHANGED <<err, exit_code>>
    /\ UNCHANGED <<args, ref_file, obtained_file, ref_data, obtained_data, losses, stages>>

\* line 108
print_stats_header ==
    /\ pc = "print_stats_header"
    /\ out' = Append(out, Line("Additional Statistics:", <<>>))
    /\ pc' = "print_count"
    /\ UNCHANGED <<args, ref_file, obtained_file, ref_data, obtained_data, losses, idx,
                   err, exit_code, stages>>

\* line 109
print_count ==
    /\ pc = "print_count"
    /\ IF Len(ref_data.shape) < 2
       THEN Uncaught("IndexError")
       ELSE /\ out' = Append(out, Line("Number of data points:",
                                       <<FormatInt(ref_data.shape[2])>>))
            /\ pc' = "print_x_range"
            /\ UNCHANGED <<err, exit_code>>
    /\ UNCHANGED <<args, ref_file, obtained_file, ref_data, obtained_data, losses, idx,
                   stages>>

\* one of lines 110-112: the minimum and maximum of a row
PrintRange(text, row, next, code) ==
    /\ IF args.precision < 0
       THEN Uncaught("ValueError")
       ELSE /\ out' = Append(out, Line(text, <<FormatFloat(ArrMin(row), args.precision),
                                               FormatFloat(ArrMax(row), args.precision)>>))
            /\ pc' = next
            /\ exit_code' = code
            /\ UNCHANGED err
    /\ UNCHANGED <<args, ref_file, obtained_file, ref_data, obtained_data, losses, idx,
                   stages>>

\* line 110
print_x_range ==
    /\ pc = "print_x_range"
    /\ PrintRange("X range:", RowOf(ref_data, 0), "print_y_ref", exit_code)

\* line 111
print_y_ref ==
    /\ pc = "print_y_ref"
    /\ PrintRange("Y range (reference):", RowOf(ref_data, 1), "print_y_obtained", exit_code)

\* line 112, after which main returns and the process ends with status 0
print_y_obtained ==
    /\ pc = "print_y_obtained"
    /\ PrintRange("Y range (obtained):", RowOf(obtained_data, 1), "done", 0)


Next ==
    \/ parse_arguments /\ UNCHANGED metric_vars
    \/ parse_arguments_error /\ UNCHANGED metric_vars
    \/ load_ref /\ UNCHANGED metric_vars
    \/ load_obtained /\ UNCHANGED metric_vars
    \/ check /\ UNCHANGED metric_vars
    \/ calculate /\ UNCHANGED metric_vars
    \/ print_header /\ UNCHANGED metric_vars
    \/ print_loss /\ UNCHANGED metric_vars
    \/ print_stats_header /\ UNCHANGED metric_vars
    \/ print_count /\ UNCHANGED metric_vars
    \/ print_x_range /\ UNCHANGED metric_vars
    \/ print_y_ref /\ UNCHANGED metric_vars
    \/ print_y_obtained /\ UNCHANGED metric_vars

\* ------------------------------------------- the metric functions on inputs
\* the smallest positive number
Tiny == Fin(1)

\* values of the reference y-column
YVals == {Zero, Tiny, Num(1), Num(2), Num(3)}

\* values of a constant obtained y-column
PVals == {Zero, Num(2)}

\* values of an x-column
XVals == {Zero, Num(1)}

\* the array load_data returns for the points (xs[i], ys[i])
Dataset(xs, ys) == Arr(<<2, Len(xs)>>, xs \o ys)

Grid(n) == [i \in 1..n |-> Num(i)]

Perms(n) == { p \in [1..n -> 1..n] : \A i, j \in 1..n : p[i] = p[j] => i = j }

\* the dataset of the same points in the order p
PermuteRows(a, p) ==
    Dataset([i \in 1..Len(p) |-> RowOf(a, 0)[p[i]]],
            [i \in 1..Len(p) |-> RowOf(a, 1)[p[i]]])

\* the dataset with its x-column replaced
WithX(a, xs) == Dataset(xs, RowOf(a, 1))

MetricInit ==
    /\ m_pc = "input"
    /\ m_ref = NoData
    /\ m_obtained = NoData
    /\ m_losses = <<>>
    /\ m_ref2 = NoData
    /\ m_obtained2 = NoData
    /\ m_losses2 = <<>>
    /\ m_perm = <<>>

\* the rows of ys moved up by one, the first row last
Rotate(ys) == [i \in 1..Len(ys) |-> ys[(i % Len(ys)) + 1]]

\* obtained y-columns for the reference y-column yt: a copy of it, its rows
\* rotated, or a constant column
Predictions(yt) ==
    {yt, Rotate(yt)} \cup { [i \in 1..Len(yt) |-> c] : c \in PVals }

\* two datasets of the same length n >= 1
choose_input ==
    /\ m_pc = "input"
    /\ \E n \in 1..MaxLen :
         \E yt \in [1..n -> YVals] :
           \E yp \in Predictions(yt) :
             /\ m_ref' = Dataset(Grid(n), yt)
             /\ m_obtained' = Dataset(Grid(n), yp)
    /\ m_pc' = "ready"
    /\ UNCHANGED <<m_losses, m_ref2, m_obtained2, m_losses2, m_perm>>

compute ==
    /\ m_pc = "ready"
    /\ m_losses' = calculate_losses(m_ref, m_obtained).val
    /\ m_pc' = "computed"
    /\ UNCHANGED <<m_ref, m_obtained, m_ref2, m_obtained2, m_losses2, m_perm>>

\* the same permutation applied to the rows of both datasets
permute_rows ==
    /\ m_pc = "computed"
    /\ \E p \in Perms(m_ref.shape[2]) :
         /\ m_perm' = p
         /\ m_ref2' = PermuteRows(m_ref, p)
         /\ m_obtained2' = PermuteRows(m_obtained, p)
         /\ m_losses2' = calculate_losses(PermuteRows(m_ref, p),
                                          PermuteRows(m_obtained, p)).val
    /\ m_pc' = "permuted"
    /\ UNCHANGED <<m_ref, m_obtained, m_losses>>

\* another x-value in one row of the reference or of the obtained dataset
change_x ==
    /\ m_pc = "computed"
    /\ \E i \in 1..m_ref.shape[2] : \E x \in XVals :
         \/ /\ m_ref2' = WithX(m_ref, [RowOf(m_ref, 0) EXCEPT ![i] = x])
            /\ m_obtained2' = m_obtained
            /\ m_losses2' = calculate_losses(
                                WithX(m_ref, [RowOf(m_ref, 0) EXCEPT ![i] = x]),
                                m_obtained).val
         \/ /\ m_ref2' = m_ref
            /\ m_obtained2' = WithX(m_obtained, [RowOf(m_obtained, 0) EXCEPT ![i] = x])
            /\ m_losses2' = calculate_losses(
                                m_ref,
                                WithX(m_obtained, [RowOf(m_obtained, 0) EXCEPT ![i] = x])).val
    /\ m_pc' = "x_changed"
    /\ UNCHANGED <<m_ref, m_obtained, m_losses, m_perm>>

MetricNext ==
    \/ choose_input /\ UNCHANGED run_vars
    \/ compute /\ UNCHANGED run_vars
    \/ permute_rows /\ UNCHANGED run_vars
    \/ change_x /\ UNCHANGED run_vars

Init == RunInit /\ MetricInit

Spec == Init /\ [][Next]_vars

MetricSpec == Init /\ [][MetricNext]_vars


\* ------------------------------------------------ vocabulary of the claims
\* f is a readable file whose rows all have exactly two tokens
TwoColumns(f) == f.exists /\ \A i \in 1..Len(f.rows) : Len(f.rows[i]) = 2

\* the number of rows (points) of f
NRows(f) == Len(f.rows)

Texts(lines) == [i \in 1..Len(lines) |-> lines[i].text]

ReportTexts ==
    << "Loss values:", "MSE", "MAE", "RMSE", "R-squared", "Additional Statistics:",
       "Number of data points:", "X range:", "Y range (reference):",
       "Y range (obtained):" >>

FormatErrors == {"Error: Input file must contain exactly two columns.", "Error: genfromtxt"}

ShapeError == "Error: Reference and obtained data must have the same shape."

\* the whole report has been printed, and nothing else
FullReport == Texts(out) = ReportTexts

\* no line of the report has been printed
NoReportOutput ==
    \A i \in 1..Len(out) : \A j \in 1..Len(ReportTexts) : out[i].text # ReportTexts[j]

Printed(text) == \E i \in 1..Len(out) : out[i].text = text

\* load_data was called on f and f does not have exactly two columns
Rejectable(f) == f.read /\ f.exists /\ ~TwoColumns(f)

\* C1: whenever load_data has been called on a readable file whose rows do
\* not all have exactly two columns (one column, three or more, irregular),
\* whatever its number of rows, a format error has been printed, the process
\* has ended with status 1 and no dataset was returned for the file.
C1_RejectsNonTwoColumnFiles ==
    /\ Rejectable(ref_file) =>
         /\ ref_data = NoData
         /\ exit_code = 1
         /\ \E e \in FormatErrors : Printed(e)
    /\ Rejectable(obtained_file) =>
         /\ obtained_data = NoData
         /\ exit_code = 1
         /\ \E e \in FormatErrors : Printed(e)

\* C2: a finished run whose two files both have n >= 1 rows of exactly two
\* tokens, with the same n, has printed the full report and ended with exit
\* code 0; and a run ends with exit code 1 only after a load failure (a file
\* that cannot be read), a format failure (a file read that does not have
\* exactly two columns) or a shape mismatch (two two-column files with
\* different numbers of rows).
C2_ValidPairSucceeds ==
    pc = "done" =>
      /\ ( /\ TwoColumns(ref_file) /\ TwoColumns(obtained_file)
           /\ NRows(ref_file) = NRows(obtained_file) )
         => (exit_code = 0 /\ FullReport /\ Len(losses) = 4)
      /\ exit_code = 1 =>
           \/ ref_file.read /\ ~ref_file.exists
           \/ obtained_file.read /\ ~obtained_file.exists
           \/ Rejectable(ref_file)
           \/ Rejectable(obtained_file)
           \/ /\ TwoColumns(ref_file) /\ TwoColumns(obtained_file)
              /\ NRows(ref_file) # NRows(obtained_file)

\* C4: once the consistency check has run on two loaded datasets: if their
\* point counts differ, the shape error has been printed, the process has
\* ended with status 1 and no metric was computed or printed; if their point
\* counts are equal, the check passed and had no effect.
C4_ShapeMismatchRejected ==
    Len(stages) >= 3 =>
      IF NRows(ref_file) # NRows(obtained_file)
      THEN /\ Printed(ShapeError)
           /\ pc = "done" /\ exit_code = 1
           /\ losses = <<>>
           /\ NoReportOutput
      ELSE /\ ~Printed(ShapeError)
           /\ pc = "calculate" => (out = <<>> /\ err = "" /\ exit_code = -1)

\* C5: a run that has ended with a non-zero exit status has printed no part
\* of the report; a run that has ended with exit code 0 has printed all of it.
C5_NoPartialOutput ==
    pc = "done" =>
      /\ exit_code # 0 => NoReportOutput
      /\ exit_code = 0 => FullReport

\* SS_tot as r_squared computes it for the loaded reference dataset
RunSSTot == ss_tot(RowOf(ref_data, 1))

RunSSRes == ss_res(RowOf(ref_data, 1), RowOf(obtained_data, 1))

\* C6: when the losses have been computed and SS_tot is zero, R-squared is
\* NaN if SS_res is zero and infinite otherwise, and the run is not treated
\* as failed: when it ends it has printed the full report (the four metrics
\* and the statistics block) and its exit code is 0.
C6_DegenerateR2NotAnError ==
    (losses # <<>> /\ RunSSTot = Zero) =>
      /\ losses[4].name = "R-squared"
      /\ IF RunSSRes = Zero THEN losses[4].value = NaN ELSE losses[4].value.k = "inf"
      /\ pc = "done" => (exit_code = 0 /\ FullReport)

StageOrder == <<"load_ref", "load_obtained", "check", "calculate", "report">>

\* C10: the stages of a run happen in the order load reference, load
\* obtained, consistency check, metric computation, report, each only after
\* all earlier ones succeeded: the obtained file is read only if the
\* reference dataset was returned, the check runs only on two returned
\* datasets, the metrics are computed only on datasets of equal shape, and
\* the report starts only after the metrics were computed.
C10_StagesInOrder ==
    /\ Len(stages) <= Len(StageOrder)
    /\ stages = SubSeq(StageOrder, 1, Len(stages))
    /\ obtained_file.read => (Len(stages) >= 2 /\ ref_data # NoData)
    /\ Len(stages) >= 2 => (ref_file.read /\ ref_data # NoData)
    /\ Len(stages) >= 3 => (obtained_file.read /\ obtained_data # NoData)
    /\ Len(stages) >= 4 => ref_data.shape = obtained_data.shape
    /\ Len(stages) >= 5 => Len(losses) = 4
    /\ losses # <<>> => Len(stages) >= 4
    /\ ~NoReportOutput => Len(stages) = 5

\* a run that went through all five stages and ended with exit code 0
C10_Witness == pc = "done" /\ exit_code = 0 /\ stages = StageOrder /\ FullReport


\* ------------------------------------------- claims on the metric functions
\* the y-columns of the chosen datasets, and of the changed ones
YTrue == RowOf(m_ref, 1)

YPred == RowOf(m_obtained, 1)

YTrue2 == RowOf(m_ref2, 1)

YPred2 == RowOf(m_obtained2, 1)

\* the losses have been computed for the chosen datasets
Computed == m_pc \in {"computed", "permuted", "x_changed"}

Names(ls) == [i \in 1..Len(ls) |-> ls[i].name]

MSE == m_losses[1].value

MAE == m_losses[2].value

RMSE == m_losses[3].value

R2 == m_losses[4].value

\* C3 as stated: for equal sequences MSE = MAE = RMSE = 0 and R-squared = 1,
\* constant sequences included.
C3_Original ==
    (Computed /\ YTrue = YPred) =>
      (MSE = Zero /\ MAE = Zero /\ RMSE = Zero /\ R2 = Num(1))

\* C3 (as amended): for equal non-empty sequences MSE, MAE and RMSE are 0;
\* R-squared is 1 when SS_tot is not zero and NaN when SS_tot is zero (one
\* point, or a constant sequence such as [5,5,5]).
C3_IdenticalSequences ==
    (Computed /\ YTrue = YPred) =>
      /\ MSE = Zero /\ MAE = Zero /\ RMSE = Zero
      /\ ss_tot(YTrue) # Zero => R2 = Num(1)
      /\ ss_tot(YTrue) = Zero => R2 = NaN

\* equal sequences that are not constant, with R-squared = 1
C3_Witness ==
    /\ m_pc = "computed" /\ YTrue = YPred /\ Len(YTrue) = 3
    /\ ss_tot(YTrue) # Zero /\ R2 = Num(1) /\ MSE = Zero

\* a non-zero exact result was rounded to zero in mean_squared_error: the
\* square of a non-zero difference, or a non-zero sum divided by n
UnderflowMSE(yt, yp) ==
    \/ \E i \in 1..Len(yt) : yt[i] # yp[i] /\ ArrSquare(ArrSub(yt, yp))[i] = Zero
    \/ np_sum(ArrSquare(ArrSub(yt, yp))) # Zero /\ mean_squared_error(yt, yp) = Zero

\* the same in mean_absolute_error: a non-zero sum divided by n
UnderflowMAE(yt, yp) ==
    np_sum(ArrAbs(ArrSub(yt, yp))) # Zero /\ mean_absolute_error(yt, yp) = Zero

\* C7 as stated: MAE >= 0 and MSE >= 0, and each is 0 only if the sequences
\* are equal elementwise.
C7_Original ==
    Computed =>
      /\ FLeq(Zero, MAE) /\ FLeq(Zero, MSE)
      /\ MAE = Zero => YTrue = YPred
      /\ MSE = Zero => YTrue = YPred

\* C7 (as amended): MAE >= 0 and MSE >= 0; each is 0 when the sequences are
\* equal elementwise; for unequal sequences each is 0 only when a non-zero
\* intermediate result underflowed to zero.
C7_NonNegative ==
    Computed =>
      /\ FLeq(Zero, MAE) /\ FLeq(Zero, MSE)
      /\ YTrue = YPred => (MAE = Zero /\ MSE = Zero)
      /\ (MAE = Zero /\ YTrue # YPred) => UnderflowMAE(YTrue, YPred)
      /\ (MSE = Zero /\ YTrue # YPred) => UnderflowMSE(YTrue, YPred)

\* unequal sequences of three elements with positive MAE and MSE
C7_Witness ==
    /\ m_pc = "computed" /\ Len(YTrue) = 3 /\ YTrue # YPred
    /\ MAE # Zero /\ MSE # Zero /\ FLeq(Zero, MAE) /\ FLeq(Zero, MSE)

\* no addition of the reduction of a rounds: every partial sum is exact
RECURSIVE ExactFrom(_, _)
ExactFrom(acc, a) ==
    \/ a = <<>>
    \/ /\ Rnd(acc.v + Head(a).v, 1) = acc.v + Head(a).v
       /\ ExactFrom(FAdd(acc, Head(a)), Tail(a))

ExactSum(a) == ExactFrom(Zero, a)

\* the four reductions of calculate_losses add without rounding
SumsExact(yt, yp) ==
    /\ ExactSum(ArrSquare(ArrSub(yt, yp)))
    /\ ExactSum(ArrAbs(ArrSub(yt, yp)))
    /\ ExactSum(yt)
    /\ ExactSum(ArrSquare(ArrSubScalar(yt, np_mean(yt))))

\* C8 as stated: the same permutation applied to the rows of both datasets
\* leaves every value returned by calculate_losses unchanged.
C8_Original == m_pc = "permuted" => m_losses2 = m_losses

\* C8 (as amended): the same permutation applied to the rows of both
\* datasets leaves every value returned by calculate_losses unchanged when
\* none of the additions of the reductions rounds, in either row order.
C8_PermutationInvariant ==
    (m_pc = "permuted" /\ SumsExact(YTrue, YPred) /\ SumsExact(YTrue2, YPred2))
      => m_losses2 = m_losses

\* rows really reordered, sums exact, metrics not trivial
C8_Witness ==
    /\ m_pc = "permuted" /\ Len(m_perm) = 3 /\ YTrue2 # YTrue /\ YPred2 # YPred
    /\ SumsExact(YTrue, YPred) /\ SumsExact(YTrue2, YPred2)
    /\ MSE # Zero /\ IsFinite(R2) /\ m_losses2 = m_losses


\* the exact differences, in quanta
Diffs(yt, yp) == [i \in 1..Len(yt) |-> yt[i].v - yp[i].v]

RECURSIVE IntSum(_)
IntSum(a) == IF a = <<>> THEN 0 ELSE Head(a) + IntSum(Tail(a))

\* the differences and their squares are representable
ExactSquares(yt, yp) ==
    \A i \in 1..Len(yt) :
      LET d == Diffs(yt, yp)[i]
      IN  /\ Rnd(d, 1) = d
          /\ (d * d) % One = 0
          /\ Rnd(d * d, One) = (d * d) \div One

\* the mean of the squared differences, computed exactly and rounded once
RefMSE(yt, yp) ==
    Fin(Rnd(IntSum([i \in 1..Len(yt) |-> Diffs(yt, yp)[i] * Diffs(yt, yp)[i]]),
            One * Len(yt)))

\* the mean of the absolute differences, computed exactly and rounded once
RefMAE(yt, yp) ==
    Fin(Rnd(IntSum([i \in 1..Len(yt) |-> Abs(Diffs(yt, yp)[i])]), Len(yt)))

\* the representable neighbours of the representable k >= 0
Succ(k) == k + Ulp(k, 1, 1)

Pred(k) == k - Ulp(k - 1, 1, 1)

\* r is a representable number nearest to the square root of m
NearestSqrt(r, m) ==
    /\ IsFinite(r) /\ IsFinite(m)
    /\ r.v >= 0 /\ Rnd(r.v, 1) = r.v
    /\ r.v > 0 => (r.v + Pred(r.v)) * (r.v + Pred(r.v)) <= 4 * m.v * One
    /\ 4 * m.v * One <= (r.v + Succ(r.v)) * (r.v + Succ(r.v))

\* the scenario of the specification: y = [1,2,3] against [2,2,2]
Scenario ==
    /\ YTrue = <<Num(1), Num(2), Num(3)>>
    /\ YPred = <<Num(2), Num(2), Num(2)>>

TwoThirds == Fin(Rnd(2 * One, 3))

\* C9: calculate_losses returns the four entries MSE, MAE, RMSE, R-squared in
\* that order, computed from the y-columns (second rows) of the two datasets:
\* MSE and MAE are the means of the squared and of the absolute differences
\* (equal to the exactly computed mean rounded once whenever no intermediate
\* result rounds), RMSE is the square root of MSE, R-squared is
\* 1 - SS_res/SS_tot; other x-values in either dataset change no value; and
\* y = [1,2,3] against [2,2,2] gives MSE = MAE = 2/3 and R-squared = 0.
C9_CalculateLosses ==
    /\ Computed =>
         /\ Names(m_losses) = <<"MSE", "MAE", "RMSE", "R-squared">>
         /\ MSE = mean_squared_error(YTrue, YPred)
         /\ MAE = mean_absolute_error(YTrue, YPred)
         /\ (ExactSquares(YTrue, YPred) /\ SumsExact(YTrue, YPred)) =>
              (MSE = RefMSE(YTrue, YPred) /\ MAE = RefMAE(YTrue, YPred))
         /\ NearestSqrt(RMSE, MSE)
         /\ R2 = FSub(Num(1), FDiv(ss_res(YTrue, YPred), ss_tot(YTrue)))
         /\ Scenario => (MSE = TwoThirds /\ MAE = TwoThirds /\ R2 = Zero)
    /\ m_pc = "x_changed" => m_losses2 = m_losses

\* the scenario has been computed
C9_Witness ==
    /\ m_pc = "computed" /\ Scenario
    /\ MSE = TwoThirds /\ MAE = TwoThirds /\ R2 = Zero /\ RMSE # Zero

====
